---- MODULE Spec2Model ----
(***************************************************************************)
(* AudioLM utilities: the checkpoint helpers of src/audiolm/utils.py over  *)
(* a small file system, and the AudioDataset / AudioDataLoader pair of     *)
(* src/audiolm/data_preparation.py.                                        *)
(*                                                                         *)
(* Strings are sequences of one-character strings, so that formatting,     *)
(* splitting and int() are computed and not assumed.  A path is a sequence *)
(* of components; its str() joins them with "/".                           *)
(***************************************************************************)
EXTENDS Integers, Sequences, FiniteSets, TLC

VARIABLES dirs, files, mem, ret,
          corpus, cfg, pc, i, data, max_len, self_max_len, item,
          wrappers, loader, batches

fsvars == <<dirs, files, mem, ret>>
dsvars == <<corpus, cfg, pc, i, data, max_len, self_max_len, item, wrappers, loader, batches>>
vars == <<dirs, files, mem, ret,
          corpus, cfg, pc, i, data, max_len, self_max_len, item, wrappers, loader, batches>>

(***************************************************************************)
(* Bounds                                                                  *)
(***************************************************************************)
\* how many files a scanned directory tree holds
MaxExt == 2
\* how many files the file system may hold
MaxFiles == 3
\* how many files the audio folder holds
MaxClips == 2
\* the longest audio file, in samples
MaxSamples == 3
\* the most channels of an audio file
MaxChannels == 2
\* the longest max_length_audio, in seconds
MaxSeconds == 2
\* the largest batch_size
MaxBatch == 2

(***************************************************************************)
(* Python str operations                                                   *)
(***************************************************************************)
Digits == <<"0", "1", "2", "3", "4", "5", "6", "7", "8", "9">>

DigitVal(c) == (CHOOSE k \in 1..10 : Digits[k] = c) - 1

IsDigit(c) == \E k \in 1..10 : Digits[k] = c

\* s[a-1:b]: the characters a..b counted from 1, clamped to s as a slice is
Slice(s, a, b) ==
  LET lo == IF a < 1 THEN 1 ELSE a
      hi == IF b > Len(s) THEN Len(s) ELSE b
  IN IF lo > hi THEN <<>> ELSE SubSeq(s, lo, hi)

StartsAt(s, sub, k) ==
  /\ k + Len(sub) - 1 <= Len(s)
  /\ Slice(s, k, k + Len(sub) - 1) = sub

RECURSIVE Find(_, _, _)
\* str.find(sub, k): the first index >= k where sub occurs, 0 when none
Find(s, sub, k) ==
  IF k + Len(sub) - 1 > Len(s) THEN 0
  ELSE IF StartsAt(s, sub, k) THEN k
  ELSE Find(s, sub, k + 1)

\* sub in s
Contains(s, sub) == Find(s, sub, 1) # 0

EndsWith(s, sub) ==
  /\ Len(sub) <= Len(s)
  /\ Slice(s, Len(s) - Len(sub) + 1, Len(s)) = sub

RECURSIVE SplitFrom(_, _, _)
SplitFrom(s, sep, k) ==
  LET j == Find(s, sep, k)
  IN IF j = 0 THEN <<Slice(s, k, Len(s))>>
     ELSE <<Slice(s, k, j - 1)>> \o SplitFrom(s, sep, j + Len(sep))

\* s.split(sep), sep non-empty
Split(s, sep) == SplitFrom(s, sep, 1)

\* the text int() accepts: an optional sign, then digits, single underscores
\* allowed between digits
IsIntLiteral(t) ==
  LET signed == Len(t) > 0 /\ t[1] \in {"-", "+"}
      body == IF signed THEN Slice(t, 2, Len(t)) ELSE t
  IN /\ Len(body) > 0
     /\ \A k \in 1..Len(body) : IsDigit(body[k]) \/ body[k] = "_"
     /\ body[1] # "_"
     /\ body[Len(body)] # "_"
     /\ \A k \in 1..(Len(body) - 1) : ~(body[k] = "_" /\ body[k + 1] = "_")

RECURSIVE DigitsValue(_, _)
DigitsValue(body, acc) ==
  IF body = <<>> THEN acc
  ELSE IF Head(body) = "_" THEN DigitsValue(Tail(body), acc)
  ELSE DigitsValue(Tail(body), 10 * acc + DigitVal(Head(body)))

\* int(t) for a t that IsIntLiteral accepts
IntValue(t) ==
  IF t[1] = "-" THEN 0 - DigitsValue(Tail(t), 0)
  ELSE IF t[1] = "+" THEN DigitsValue(Tail(t), 0)
  ELSE DigitsValue(t, 0)

RECURSIVE IntStr(_)
\* str(n) as an f-string formats it
IntStr(n) ==
  IF n < 0 THEN <<"-">> \o IntStr(0 - n)
  ELSE IF n < 10 THEN <<Digits[n + 1]>>
  ELSE IntStr(n \div 10) \o <<Digits[(n % 10) + 1]>>

(***************************************************************************)
(* pathlib                                                                 *)
(***************************************************************************)
Slash == <<"/">>
EpochSep == <<"_", "e", "p", "o", "c", "h", "_">>
EpochWord == <<"e", "p", "o", "c", "h">>
PthExt == <<".", "p", "t", "h">>
Underscore == <<"_">>
ModelsDir == <<"m", "o", "d", "e", "l", "s">>

RECURSIVE PathStr(_)
\* str(path)
PathStr(p) ==
  IF Len(p) = 0 THEN <<>>
  ELSE IF Len(p) = 1 THEN p[1]
  ELSE PathStr(SubSeq(p, 1, Len(p) - 1)) \o Slash \o p[Len(p)]

Name(p) == p[Len(p)]

Parent(p) == SubSeq(p, 1, Len(p) - 1)

\* the index of the last "." of a name, 0 when none
LastDot(n) ==
  IF \E k \in 1..Len(n) : n[k] = "."
    THEN CHOOSE k \in 1..Len(n) : n[k] = "." /\ \A h \in (k + 1)..Len(n) : n[h] # "."
    ELSE 0

\* PurePath.stem
Stem(p) ==
  LET n == Name(p)
      d == LastDot(n)
  IN IF 1 < d /\ d < Len(n) THEN Slice(n, 1, d - 1) ELSE n

\* the entries Path(root).glob("*.pth") yields
GlobPth(root) ==
  {p \in (DOMAIN files) \cup dirs : Len(p) > 0 /\ Parent(p) = root /\ EndsWith(Name(p), PthExt)}

\* every directory os.makedirs(p) leaves in place
Ancestors(p) == {SubSeq(p, 1, k) : k \in 1..Len(p)}

(***************************************************************************)
(* Inputs                                                                  *)
(***************************************************************************)
\* type(model).__name__ of the models in use
TypeNames == {<<"N">>, <<"M">>}

\* the save_path arguments in use
Root == <<"r">>
SavePaths == {<<Root>>}

\* the epoch arguments in use: they name files ..._1, ..._2 and ..._10
EpochInputs == {0, 1, 9}

\* what torch.save leaves in a checkpoint file
CheckpointDict(T, epoch, w, esc) ==
  [kind |-> "ckpt", type |-> T, epoch |-> epoch, w |-> w, esc |-> esc]

\* what torch.save leaves in a state-dict file
StateDict(T, w) == [kind |-> "state", type |-> T, epoch |-> 0, w |-> w, esc |-> 0]

\* checkpoints written next to one another, with no directory per model type
CkptDirFlat(sp, T) == sp \o <<ModelsDir>>

\* Path(save_path) / "models" / type(model).__name__
CkptDir(sp, T) == sp \o <<ModelsDir, T>>

\* the names of the files found on disk before the first call
ExtNames ==
  { <<"N">> \o EpochSep \o <<"2">> \o PthExt,
    <<"N">> \o EpochSep \o <<"1", "0">> \o PthExt,
    <<"N">> \o EpochSep \o <<"x">> \o PthExt,
    <<"N">> \o EpochSep \o <<"1", "_", "0">> \o PthExt,
    <<"b", "_">> \o EpochWord \o PthExt,
    <<"N">> \o EpochSep \o <<"3">>,
    <<"N", "_", "7">> \o PthExt,
    <<"N", "_", "-", "1">> \o PthExt,
    <<"N">> \o PthExt }

ExtDirs == {<<Root, ModelsDir>>, CkptDir(<<Root>>, <<"N">>)}

ExtPaths == {d \o <<n>> : d \in ExtDirs, n \in ExtNames}

\* a checkpoint of model N written elsewhere and copied in under some name
ExtContent == CheckpointDict(<<"N">>, 4, 1, 0)

Put(f, p, c) == [q \in (DOMAIN f) \cup {p} |-> IF q = p THEN c ELSE f[q]]

Idle == [op |-> "idle", sp |-> <<>>, type |-> <<>>, epoch |-> 0, path |-> <<>>,
         kind |-> "idle", exc |-> "", val |-> <<>>, out |-> <<>>]

Call(op, sp, T, epoch, path) ==
  [op |-> op, sp |-> sp, type |-> T, epoch |-> epoch, path |-> path,
   kind |-> "return", exc |-> "", val |-> <<>>, out |-> <<>>]

Raise(c, exc) == [c EXCEPT !.kind = "raise", !.exc = exc]

Return(c, val, out) == [c EXCEPT !.val = val, !.out = out]

(***************************************************************************)
(* utils.py: the checkpoint helpers                                        *)
(***************************************************************************)
Max(S) == CHOOSE m \in S : \A x \in S : x <= m

Exists(p) == p \in dirs \/ p \in DOMAIN files

\* f"{model_name}_epoch_{epoch+1}.pth"
CheckpointName(model_name, epoch) ==
  model_name \o EpochSep \o IntStr(epoch + 1) \o PthExt

\* f"{model_name}.pth"
ModelName(model_name) == model_name \o PthExt

\* a parse that falls back to epoch 0 where int() would raise
EpochFieldLax(s) ==
  LET parts == Split(s, EpochSep)
  IN IF Len(parts) < 2 THEN [ok |-> FALSE, exc |-> "IndexError", val |-> 0]
     ELSE LET tok == Split(parts[2], PthExt)[1]
          IN [ok |-> TRUE, exc |-> "", val |-> IF IsIntLiteral(tok) THEN IntValue(tok) ELSE 0]

\* s.split("_epoch_")[1].split(".pth")[0], then int() of it
EpochField(s) ==
  LET parts == Split(s, EpochSep)
  IN IF Len(parts) < 2 THEN [ok |-> FALSE, exc |-> "IndexError", val |-> 0]
     ELSE LET tok == Split(parts[2], PthExt)[1]
          IN IF IsIntLiteral(tok)
               THEN [ok |-> TRUE, exc |-> "", val |-> IntValue(tok)]
               ELSE [ok |-> FALSE, exc |-> "ValueError", val |-> 0]

\* the key get_latest_checkpoint_path sorts by
SortKey(file) == EpochField(Stem(file))

\* the first token in place of the last
LeadingToken(c) == Split(Stem(c), Underscore)[1]

\* c.stem.split("_")[-1]
TrailingToken(c) ==
  LET parts == Split(Stem(c), Underscore)
  IN parts[Len(parts)]

\* save_checkpoint(model, epoch, optimizer, early_stop_counter, save_path)
save_checkpoint(T, epoch, esc, sp) ==
  LET checkpoint_path == CkptDir(sp, T)
      checkpoint == checkpoint_path \o <<CheckpointName(T, epoch)>>
      call == Call("save_checkpoint", sp, T, epoch, checkpoint)
      made == IF Exists(checkpoint_path) THEN dirs
              ELSE dirs \cup Ancestors(checkpoint_path)
  IN /\ checkpoint \in DOMAIN files \/ Cardinality(DOMAIN files) < MaxFiles
     /\ dirs' = made
     /\ IF checkpoint_path \in made /\ checkpoint \notin made
          THEN /\ files' = Put(files, checkpoint, CheckpointDict(T, epoch, mem[T], esc))
               /\ ret' = call
          ELSE /\ files' = files
               /\ ret' = Raise(call, "OSError")
     /\ UNCHANGED <<mem, dsvars>>

\* a save_model that makes its directory, as save_checkpoint does
SaveModelDirsMade(T, sp) == dirs \cup Ancestors(CkptDir(sp, T))

\* the directories in place when save_model writes: it makes none
SaveModelDirs(T, sp) == dirs

\* save_model(model, save_path)
save_model(T, sp) ==
  LET model_path == CkptDir(sp, T) \o <<ModelName(T)>>
      call == Call("save_model", sp, T, 0, model_path)
      made == SaveModelDirs(T, sp)
  IN /\ model_path \in DOMAIN files \/ Cardinality(DOMAIN files) < MaxFiles
     /\ dirs' = made
     /\ IF Parent(model_path) \in made /\ model_path \notin made
          THEN /\ files' = Put(files, model_path, StateDict(T, mem[T]))
               /\ ret' = call
          ELSE /\ files' = files
               /\ ret' = Raise(call, "OSError")
     /\ UNCHANGED <<mem, dsvars>>

\* load_checkpoint(model, checkpoint_path), checkpoint_path a str
load_checkpoint(T, checkpoint_path) ==
  LET call == Call("load_checkpoint", <<>>, T, 0, checkpoint_path)
      parsed == EpochField(PathStr(checkpoint_path))
  IN IF ~parsed.ok
       THEN /\ ret' = Raise(call, parsed.exc)
            /\ UNCHANGED <<dirs, files, mem, dsvars>>
     ELSE IF checkpoint_path \notin DOMAIN files
       THEN /\ ret' = Raise(call, "FileNotFoundError")
            /\ UNCHANGED <<dirs, files, mem, dsvars>>
     ELSE IF files[checkpoint_path].kind # "ckpt"
       THEN /\ ret' = Raise(call, "KeyError")
            /\ UNCHANGED <<dirs, files, mem, dsvars>>
     ELSE /\ mem' = [mem EXCEPT ![T] = files[checkpoint_path].w]
          /\ ret' = Return(call, <<parsed.val, files[checkpoint_path].esc>>, <<>>)
          /\ UNCHANGED <<dirs, files, dsvars>>

\* get_latest_checkpoint_path(model_root); the order glob lists the files in is
\* not fixed, so any file that fails may be the one that raises, and any file
\* with the largest key may be the last of the sorted list
get_latest_checkpoint_path(model_root) ==
  LET call == Call("get_latest_checkpoint_path", model_root, <<>>, 0, <<>>)
      filtered == {file \in GlobPth(model_root) : Contains(Stem(file), EpochWord)}
      bad == {file \in filtered : ~SortKey(file).ok}
      top == Max({SortKey(file).val : file \in filtered})
  IN /\ IF filtered = {}
          THEN ret' = call
        ELSE IF bad # {}
          THEN \E file \in bad : ret' = Raise(call, SortKey(file).exc)
        ELSE \E file \in filtered :
               /\ SortKey(file).val = top
               /\ ret' = Return(call, <<top>>, <<file>>)
     /\ UNCHANGED <<dirs, files, mem, dsvars>>

\* get_latest_epoch(save_path)
get_latest_epoch(save_path) ==
  LET call == Call("get_latest_epoch", save_path, <<>>, 0, <<>>)
      checkpoint_path == save_path \o <<ModelsDir>>
      checkpoints_epoch ==
        {IntValue(TrailingToken(c)) :
           c \in {g \in GlobPth(checkpoint_path) : IsIntLiteral(TrailingToken(g))}}
  IN /\ IF checkpoints_epoch # {}
          THEN ret' = Return(call, <<Max(checkpoints_epoch)>>, <<>>)
          ELSE ret' = Return(call, <<0>>, <<>>)
     /\ UNCHANGED <<dirs, files, mem, dsvars>>

(***************************************************************************)
(* The checkpoint helpers, called in any order on a directory tree that    *)
(* may already hold files                                                  *)
(***************************************************************************)
\* early_stop_counter arguments in use
EarlyStops == {2}

\* a well-named checkpoint path with no file behind it
MissingPath == CkptDir(<<Root>>, <<"M">>) \o <<CheckpointName(<<"M">>, 4)>>

\* the directories the lookups are pointed at
ModelRoots == ExtDirs \cup {CkptDir(sp, T) : sp \in SavePaths, T \in TypeNames}

DsOff ==
  /\ corpus = <<>>
  /\ cfg = [exists |-> FALSE, max_length_audio |-> <<>>, sample_frequency |-> 0,
            batch_size |-> 0]
  /\ pc = "off"
  /\ i = 0
  /\ data = <<>>
  /\ max_len = 0
  /\ self_max_len = <<>>
  /\ item = <<>>
  /\ wrappers = {}
  /\ loader = <<>>
  /\ batches = <<>>

\* the directory tree holds the files ext, and nothing has been called
Populated(ext) ==
  /\ files = [p \in ext |-> ExtContent]
  /\ \E base \in {{}, Ancestors(<<Root, ModelsDir>>)} :
       dirs = base \cup UNION {Ancestors(Parent(p)) : p \in ext}
  /\ mem = [T \in TypeNames |-> 0]
  /\ ret = Idle
  /\ DsOff

\* the saves start on an empty tree or next to one file that was there before
Init == \E ext \in {{}} \cup {{p} : p \in ExtPaths} : Populated(ext)

InitScan == \E ext \in SUBSET ExtPaths : Cardinality(ext) <= MaxExt /\ Populated(ext)

Do_save_checkpoint ==
  \E T \in TypeNames, epoch \in EpochInputs, esc \in EarlyStops, sp \in SavePaths :
    save_checkpoint(T, epoch, esc, sp)

Do_save_model == \E T \in TypeNames, sp \in SavePaths : save_model(T, sp)

\* load_checkpoint on any file of the tree, or on a path with no file behind
\* it; the model handed in is of the type the file was saved from
Do_load_checkpoint ==
  \E checkpoint_path \in (DOMAIN files) \cup {MissingPath} :
    \E T \in TypeNames :
      /\ checkpoint_path \in DOMAIN files => T = files[checkpoint_path].type
      /\ load_checkpoint(T, checkpoint_path)

Do_get_latest_checkpoint_path == \E model_root \in ModelRoots : get_latest_checkpoint_path(model_root)

Do_get_latest_epoch == \E save_path \in SavePaths : get_latest_epoch(save_path)

Next ==
  \/ Do_save_checkpoint
  \/ Do_save_model
  \/ Do_load_checkpoint
  \/ Do_get_latest_checkpoint_path
  \/ Do_get_latest_epoch

Spec == Init /\ [][Next]_vars

\* the lookups alone, on a directory tree that other programs filled
NextScan ==
  \/ Do_load_checkpoint
  \/ Do_get_latest_checkpoint_path
  \/ Do_get_latest_epoch

SpecScan == InitScan /\ [][NextScan]_vars

(***************************************************************************)
(* data_preparation.py: tensors                                            *)
(*                                                                         *)
(* A two-dimensional tensor (channels first) is a sequence of channels,    *)
(* each a sequence of samples; None is <<>> and a value v is <<v>>.        *)
(***************************************************************************)
\* the sample frequencies a dataset is asked for
SampleFrequencies == {2}

\* the sample k of channel ch of a file: no two positions of a file agree,
\* none is 0, and the mean over the channels is a whole number
Tone(ch, k) == 10 * ch + 2 * k

AudioFile(sr, nch, n) ==
  [flac |-> TRUE, sr |-> sr, audio |-> [ch \in 1..nch |-> [k \in 1..n |-> Tone(ch, k)]]]

\* a file of the folder that is no .flac file
OtherFile == [flac |-> FALSE, sr |-> 0, audio |-> <<>>]

\* the files a folder may hold when sample_frequency is sf
FileKinds(sf) ==
  {AudioFile(sr, nch, n) : sr \in {sf, 2 * sf}, nch \in 1..MaxChannels, n \in 0..MaxSamples}
    \cup {OtherFile}

\* audio.size(1)
Size1(audio) == Len(audio[1])

CeilDiv(a, b) == (a + b - 1) \div b

\* torchaudio.functional.resample: ceil(n * new / orig) samples, each taken
\* from the place of the original it falls on
Resample(audio, orig_freq, new_freq) ==
  [ch \in 1..Len(audio) |->
     [k \in 1..CeilDiv(Size1(audio) * new_freq, orig_freq) |->
        audio[ch][((k - 1) * orig_freq) \div new_freq + 1]]]

RECURSIVE ChannelSum(_, _, _)
ChannelSum(audio, ch, k) ==
  IF ch = 0 THEN 0 ELSE audio[ch][k] + ChannelSum(audio, ch - 1, k)

\* audio.mean(0, keepdim=True)
MeanKeepdim(audio) ==
  <<[k \in 1..Size1(audio) |-> ChannelSum(audio, Len(audio), k) \div Len(audio)]>>

\* padding_audio(audio, max_len): zeros appended to every channel
padding_audio(audio, n) ==
  [ch \in 1..Len(audio) |-> audio[ch] \o [k \in 1..(n - Size1(audio)) |-> 0]]

\* cut_audio(audio, max_len): the first max_len samples of every channel
cut_audio(audio, n) == [ch \in 1..Len(audio) |-> Slice(audio[ch], 1, n)]

\* audio.squeeze(0)
Squeeze0(audio) ==
  IF Len(audio) = 1 THEN [dim |-> 1, samples |-> audio[1], tensor |-> <<>>]
  ELSE [dim |-> 2, samples |-> <<>>, tensor |-> audio]

(***************************************************************************)
(* AudioDataset                                                            *)
(***************************************************************************)
\* __collate_audio: the .flac files, in the order os.walk finds them
collate_audio == SelectSeq(corpus, LAMBDA f : f.flac)

\* a load that keeps every channel
LoadedUnmixed(elem, sample_frequency) ==
  IF elem.sr # sample_frequency
    THEN Resample(elem.audio, elem.sr, sample_frequency)
    ELSE elem.audio

\* the clip get_ready_audio appends for one file
Loaded(elem, sample_frequency) ==
  LET resampled == IF elem.sr # sample_frequency
                     THEN Resample(elem.audio, elem.sr, sample_frequency)
                     ELSE elem.audio
  IN IF Len(resampled) > 1 THEN MeanKeepdim(resampled) ELSE resampled

\* the length of the last file in place of the longest
LongestLast(m, audio) == Size1(audio)

\* the running maximum of get_ready_audio
Longest(m, audio) == IF m < Size1(audio) THEN Size1(audio) ELSE m

\* self.max_len once every file is loaded
Resolved(self_m, m) == IF self_m = <<>> THEN <<m>> ELSE self_m

\* the two branches taken for one another
NormalizedSwapped(audio, n) ==
  IF Size1(audio) < n THEN cut_audio(audio, n)
  ELSE IF Size1(audio) > n THEN padding_audio(audio, n)
  ELSE audio

\* the second loop of get_ready_audio, for one clip
Normalized(audio, n) ==
  IF Size1(audio) < n THEN padding_audio(audio, n)
  ELSE IF Size1(audio) > n THEN cut_audio(audio, n)
  ELSE audio

\* AudioDataset.__init__, up to the first loop of get_ready_audio
AudioDataset_init ==
  /\ pc = "new"
  /\ IF ~cfg.exists
       THEN /\ pc' = "AssertionError"
            /\ UNCHANGED <<self_max_len, i, data, max_len>>
       ELSE /\ self_max_len' = IF cfg.max_length_audio # <<>>
                                 THEN <<cfg.max_length_audio[1] * cfg.sample_frequency>>
                                 ELSE <<>>
            /\ data' = <<>>
            /\ max_len' = -1
            /\ i' = 1
            /\ pc' = "load"
  /\ UNCHANGED <<corpus, cfg, item, wrappers, loader, batches, fsvars>>

\* get_ready_audio, one turn of the first loop
get_ready_audio_load ==
  /\ pc = "load"
  /\ i <= Len(collate_audio)
  /\ LET audio == Loaded(collate_audio[i], cfg.sample_frequency)
     IN /\ data' = Append(data, audio)
        /\ max_len' = Longest(max_len, audio)
  /\ i' = i + 1
  /\ UNCHANGED <<corpus, cfg, pc, self_max_len, item, wrappers, loader, batches, fsvars>>

\* get_ready_audio, between the loops
get_ready_audio_resolve ==
  /\ pc = "load"
  /\ i > Len(collate_audio)
  /\ self_max_len' = Resolved(self_max_len, max_len)
  /\ i' = 1
  /\ pc' = "normalize"
  /\ UNCHANGED <<corpus, cfg, data, max_len, item, wrappers, loader, batches, fsvars>>

\* get_ready_audio, one turn of the second loop
get_ready_audio_normalize ==
  /\ pc = "normalize"
  /\ i <= Len(data)
  /\ data' = [data EXCEPT ![i] = Normalized(data[i], self_max_len[1])]
  /\ i' = i + 1
  /\ UNCHANGED <<corpus, cfg, pc, max_len, self_max_len, item, wrappers, loader, batches,
                 fsvars>>

\* get_ready_audio returns and __init__ keeps the list as self.data
get_ready_audio_return ==
  /\ pc = "normalize"
  /\ i > Len(data)
  /\ pc' = "ready"
  /\ UNCHANGED <<corpus, cfg, i, data, max_len, self_max_len, item, wrappers, loader,
                 batches, fsvars>>

\* AudioDataset.__getitem__(idx), idx counted from 1 here
getitem(idx) ==
  /\ pc = "ready"
  /\ item' = <<Squeeze0(data[idx])>>
  /\ UNCHANGED <<corpus, cfg, pc, i, data, max_len, self_max_len, wrappers, loader,
                 batches, fsvars>>

Do_getitem == \E idx \in 1..Len(data) : getitem(idx)

FsOff ==
  /\ dirs = {}
  /\ files = <<>>
  /\ mem = [T \in TypeNames |-> 0]
  /\ ret = Idle

RECURSIVE SeqsUpTo(_, _)
\* the sequences over S of length at most n
SeqsUpTo(S, n) ==
  IF n = 0 THEN {<<>>}
  ELSE LET shorter == SeqsUpTo(S, n - 1)
       IN shorter \cup {Append(q, x) : q \in shorter, x \in S}

\* a dataset about to be constructed over the folder holding `folder`
Unbuilt(folder, exists, max_length_audio, sample_frequency, batch_size) ==
  /\ corpus = folder
  /\ cfg = [exists |-> exists, max_length_audio |-> max_length_audio,
            sample_frequency |-> sample_frequency, batch_size |-> batch_size]
  /\ pc = "new"
  /\ i = 0
  /\ data = <<>>
  /\ max_len = 0
  /\ self_max_len = <<>>
  /\ item = <<>>
  /\ wrappers = {}
  /\ loader = <<>>
  /\ batches = <<>>

Seconds == {<<>>} \cup {<<t>> : t \in 0..MaxSeconds}

InitData ==
  /\ FsOff
  /\ \E sf \in SampleFrequencies, mla \in Seconds, exists \in BOOLEAN :
       \E folder \in SeqsUpTo(FileKinds(sf), MaxClips) :
         /\ ~exists => folder = <<>>
         /\ Unbuilt(folder, exists, mla, sf, 0)

NextData ==
  \/ AudioDataset_init
  \/ get_ready_audio_load
  \/ get_ready_audio_resolve
  \/ get_ready_audio_normalize
  \/ get_ready_audio_return
  \/ Do_getitem

SpecData == InitData /\ [][NextData]_vars

(***************************************************************************)
(* AudioDataLoader                                                         *)
(***************************************************************************)
\* what a torch DataLoader is constructed with
DataLoaderArgs(batch_size, shuffle, collate_fn) ==
  [batch_size |-> batch_size, shuffle |-> shuffle, collate_fn |-> collate_fn]

\* AudioDataLoader.__init__ after the dataset is built: the fields it keeps
\* and the arguments it hands to DataLoader.__init__
AudioDataLoaderFields(batch_size, shuffle, max_length_audio, sample_frequency) ==
  [arg_shuffle |-> shuffle,
   batch_size |-> batch_size,
   max_len |-> IF max_length_audio # <<>>
                 THEN <<max_length_audio[1] * sample_frequency>>
                 ELSE <<>>,
   shuffle |-> shuffle,
   super |-> DataLoaderArgs(batch_size, FALSE, "default")]

\* a return_dataloader that passes shuffle=False as __init__ does
ReturnedLoaderUnshuffled(self) == DataLoaderArgs(self.batch_size, FALSE, "__collate_fn")

\* the DataLoader return_dataloader() constructs
ReturnedLoader(self) == DataLoaderArgs(self.batch_size, self.shuffle, "__collate_fn")

\* the orders a DataLoader draws the n indices in: SequentialSampler when
\* shuffle is off, RandomSampler otherwise
SamplerOrders(n, shuffle) ==
  IF shuffle
    THEN {q \in [1..n -> 1..n] : \A a, b \in 1..n : q[a] = q[b] => a = b}
    ELSE {[k \in 1..n |-> k]}

RECURSIVE Batched(_, _)
\* the sampler's indices in groups of batch_size, the last one possibly short
Batched(order, batch_size) ==
  IF Len(order) <= batch_size
    THEN (IF order = <<>> THEN <<>> ELSE <<order>>)
    ELSE <<SubSeq(order, 1, batch_size)>>
           \o Batched(SubSeq(order, batch_size + 1, Len(order)), batch_size)

\* the rest of AudioDataLoader.__init__, once its AudioDataset is built
AudioDataLoader_init(shuffle) ==
  /\ pc = "ready"
  /\ wrappers' = wrappers \cup
       {AudioDataLoaderFields(cfg.batch_size, shuffle, cfg.max_length_audio,
                              cfg.sample_frequency)}
  /\ UNCHANGED <<corpus, cfg, pc, i, data, max_len, self_max_len, item, loader, batches,
                 fsvars>>

\* self.return_dataloader()
return_dataloader(self) ==
  /\ loader' = <<[of |-> self.arg_shuffle, args |-> ReturnedLoader(self)]>>
  /\ UNCHANGED <<corpus, cfg, pc, i, data, max_len, self_max_len, item, wrappers, batches,
                 fsvars>>

\* one pass over a DataLoader constructed with args
Pass(via, of, args) ==
  \E order \in SamplerOrders(Len(data), args.shuffle) :
    batches' = <<[via |-> via, of |-> of, order |-> order,
                  idx |-> Batched(order, args.batch_size)]>>

\* for batch in self
iter_self(self) ==
  /\ Pass("self", self.arg_shuffle, self.super)
  /\ UNCHANGED <<corpus, cfg, pc, i, data, max_len, self_max_len, item, wrappers, loader,
                 fsvars>>

\* for batch in the loader return_dataloader() gave
iter_returned ==
  /\ loader # <<>>
  /\ Pass("return_dataloader", loader[1].of, loader[1].args)
  /\ UNCHANGED <<corpus, cfg, pc, i, data, max_len, self_max_len, item, wrappers, loader,
                 fsvars>>

\* the folders the loaders are built over: mono files at the asked rate
LoaderKinds(sf) == {AudioFile(sf, 1, n) : n \in 1..MaxSamples}

InitLoader ==
  /\ FsOff
  /\ \E sf \in SampleFrequencies, mla \in {<<>>, <<1>>}, batch_size \in 1..MaxBatch :
       \E folder \in SeqsUpTo(LoaderKinds(sf), MaxClips) :
         Unbuilt(folder, TRUE, mla, sf, batch_size)

Do_AudioDataLoader_init == \E shuffle \in BOOLEAN : AudioDataLoader_init(shuffle)

Do_return_dataloader == \E self \in wrappers : return_dataloader(self)

Do_iter_self == \E self \in wrappers : iter_self(self)

NextLoader ==
  \/ AudioDataset_init
  \/ get_ready_audio_load
  \/ get_ready_audio_resolve
  \/ get_ready_audio_normalize
  \/ get_ready_audio_return
  \/ Do_AudioDataLoader_init
  \/ Do_return_dataloader
  \/ Do_iter_self
  \/ iter_returned

SpecLoader == InitLoader /\ [][NextLoader]_vars

(***************************************************************************)
(* Properties of the checkpoint helpers                                    *)
(***************************************************************************)
\* the file at p is where save_checkpoint puts what it holds
WrittenBySave(p) ==
  /\ p \in DOMAIN files
  /\ files[p].kind = "ckpt"
  /\ \E sp \in SavePaths :
       p = CkptDir(sp, files[p].type) \o <<CheckpointName(files[p].type, files[p].epoch)>>

\* C1: a checkpoint saved at epoch e and loaded from the file that save wrote
\* comes back with epoch e.
C1_RoundTrip ==
  (ret.op = "load_checkpoint" /\ ret.kind = "return" /\ WrittenBySave(ret.path))
    => ret.val[1] = files[ret.path].epoch

\* the .pth files of root whose stem holds "_epoch_" followed by an integer
Numbered(root) == {f \in GlobPth(root) : SortKey(f).ok}

\* C3: get_latest_checkpoint_path returns a file of the highest epoch among
\* the .pth files that carry an epoch number, and None when there is none,
\* whatever else the directory holds.
C3_LatestCheckpoint ==
  ret.op = "get_latest_checkpoint_path"
    => /\ ret.kind = "return"
       /\ IF Numbered(ret.sp) = {}
            THEN ret.out = <<>>
            ELSE /\ ret.out # <<>>
                 /\ ret.out[1] \in Numbered(ret.sp)
                 /\ \A f \in Numbered(ret.sp) : SortKey(f).val <= SortKey(ret.out[1]).val

\* the index of the last "_" of a string, 0 when none
LastUnderscore(t) ==
  IF \E k \in 1..Len(t) : t[k] = "_"
    THEN CHOOSE k \in 1..Len(t) : t[k] = "_" /\ \A h \in (k + 1)..Len(t) : t[h] # "_"
    ELSE 0

\* what follows the last "_" of the stem of f
AfterLastUnderscore(f) == Slice(Stem(f), LastUnderscore(Stem(f)) + 1, Len(Stem(f)))

\* the .pth files directly under save_path/models whose stem ends in a number
Parseable(save_path) ==
  {f \in GlobPth(save_path \o <<ModelsDir>>) : IsIntLiteral(AfterLastUnderscore(f))}

\* C4: get_latest_epoch returns the largest trailing number of the .pth files
\* directly under save_path/models, skips the files that end in none, and
\* returns 0 when no file ends in one.
C4_LatestEpoch ==
  ret.op = "get_latest_epoch"
    => /\ ret.kind = "return"
       /\ Len(ret.val) = 1
       /\ IF Parseable(ret.sp) = {}
            THEN ret.val[1] = 0
            ELSE /\ \E f \in Parseable(ret.sp) : ret.val[1] = IntValue(AfterLastUnderscore(f))
                 /\ \A f \in Parseable(ret.sp) : IntValue(AfterLastUnderscore(f)) <= ret.val[1]

\* a scan that skipped one file and took its answer from another
C4_Witness ==
  /\ ret.op = "get_latest_epoch"
  /\ ret.val = <<7>>
  /\ \E f \in GlobPth(ret.sp \o <<ModelsDir>>) : f \notin Parseable(ret.sp)

\* the name holds "_epoch_", then digits, then ".pth"
HasEpochMarker(name) ==
  \E a \in 1..Len(name), b \in 1..Len(name) :
    /\ StartsAt(name, EpochSep, a)
    /\ a + Len(EpochSep) < b
    /\ StartsAt(name, PthExt, b)
    /\ \A k \in (a + Len(EpochSep))..(b - 1) : IsDigit(name[k])

\* the text after the first "_epoch_" of s, up to the next "_epoch_" or ".pth"
FieldAfterMarker(s) ==
  LET a == Find(s, EpochSep, 1) + Len(EpochSep)
      n1 == Find(s, EpochSep, a)
      n2 == Find(s, PthExt, a)
      ends == {n \in {n1, n2} : n # 0}
      b == IF ends = {} THEN Len(s) + 1 ELSE CHOOSE n \in ends : \A m \in ends : n <= m
  IN Slice(s, a, b - 1)

\* what load_checkpoint takes for a path it can read an epoch from
Readable(s) == Contains(s, EpochSep) /\ IsIntLiteral(FieldAfterMarker(s))

FormatErrors == {"IndexError", "ValueError"}

\* C7 as stated: load_checkpoint fails on every path whose file name holds no
\* "_epoch_<N>.pth".
C7_FailsWithoutMarker ==
  (ret.op = "load_checkpoint" /\ ~HasEpochMarker(Name(ret.path)))
    => (ret.kind = "raise" /\ ret.exc \in FormatErrors)

\* C7: load_checkpoint fails, with nothing loaded into the model, on every path
\* that holds no "_epoch_" or has no integer between its first "_epoch_" and
\* the next "_epoch_", ".pth" or end of the path; a path it can read an epoch
\* from does not fail that way.
C7_FailsUnreadable ==
  [][ret'.op = "load_checkpoint"
       => IF Readable(PathStr(ret'.path))
            THEN (ret'.kind = "raise" => ret'.exc \notin FormatErrors)
            ELSE /\ ret'.kind = "raise"
                 /\ ret'.exc \in FormatErrors
                 /\ mem' = mem]_vars

\* a file that would load, refused for its name, the model as it was
C7_Witness ==
  /\ ret.op = "load_checkpoint"
  /\ ret.kind = "raise"
  /\ ret.exc = "ValueError"
  /\ ret.path \in DOMAIN files
  /\ files[ret.path].kind = "ckpt"
  /\ mem[ret.type] # files[ret.path].w

\* no .pth entry directly under save_path/models
NoTopPth(sp) == GlobPth(sp \o <<ModelsDir>>) = {}

\* C9: while save_path/models holds no .pth file of its own, no call puts one
\* there, and get_latest_epoch(save_path) returns 0 whatever was saved.
C9_SavesUnseen ==
  [][\A sp \in SavePaths :
       NoTopPth(sp) =>
         /\ NoTopPth(sp)'
         /\ ((ret'.op = "get_latest_epoch" /\ ret'.sp = sp) => ret'.val = <<0>>)]_vars

\* checkpoints of two epochs on disk, and get_latest_epoch answers 0
C9_Witness ==
  /\ ret.op = "get_latest_epoch"
  /\ ret.val = <<0>>
  /\ NoTopPth(ret.sp)
  /\ \E p, q \in DOMAIN files :
       /\ p # q
       /\ WrittenBySave(p)
       /\ WrittenBySave(q)
       /\ Parent(Parent(p)) = ret.sp \o <<ModelsDir>>

\* C10: save_model makes no directory; it fails and changes nothing when
\* save_path/models/<type> is missing, and writes <type>.pth there when it
\* exists; that directory comes into being only in a save_checkpoint.
C10_SaveModelNeedsDir ==
  [][/\ (ret'.op = "save_model") =>
          /\ dirs' = dirs
          /\ ret'.path = CkptDir(ret'.sp, ret'.type) \o <<ret'.type \o PthExt>>
          /\ IF Parent(ret'.path) \in dirs
               THEN /\ ret'.kind = "return"
                    /\ DOMAIN files' = (DOMAIN files) \cup {ret'.path}
                    /\ files'[ret'.path] = StateDict(ret'.type, mem[ret'.type])
                    /\ \A q \in DOMAIN files : q # ret'.path => files'[q] = files[q]
               ELSE /\ ret'.kind = "raise"
                    /\ files' = files
      /\ (dirs' # dirs => ret'.op = "save_checkpoint")]_vars

\* the final artifact of one model type on disk, and save_model refused for
\* another type whose directory was never made
C10_Witness ==
  /\ ret.op = "save_model"
  /\ ret.kind = "raise"
  /\ Parent(ret.path) \notin dirs
  /\ \E T \in TypeNames, sp \in SavePaths :
       /\ T # ret.type
       /\ CkptDir(sp, T) \o <<ModelName(T)>> \in DOMAIN files
       /\ \E p \in DOMAIN files : WrittenBySave(p) /\ Parent(p) = CkptDir(sp, T)

(***************************************************************************)
(* Properties of AudioDataset and AudioDataLoader                          *)
(***************************************************************************)
\* the clip file k of the folder's .flac files is loaded as
Clip(k) == Loaded(collate_audio[k], cfg.sample_frequency)

\* the lengths of the loaded clips
ClipLengths == {Size1(Clip(k)) : k \in 1..Len(collate_audio)}

\* self.max_len of a constructed dataset
target_length == self_max_len[1]

\* C2: every clip of a constructed dataset has one channel of target_length
\* samples, and indexing yields a one-dimensional tensor of target_length
\* samples.
C2_ClipShape ==
  pc = "ready" =>
    /\ Len(data) = Len(collate_audio)
    /\ \A k \in 1..Len(data) : Len(data[k]) = 1 /\ Len(data[k][1]) = target_length
    /\ item # <<>> => (item[1].dim = 1 /\ Len(item[1].samples) = target_length)

\* an item taken from a dataset built over a stereo file and a mono file of
\* another length
C2_Witness ==
  /\ pc = "ready"
  /\ item # <<>>
  /\ target_length > 0
  /\ \E a, b \in 1..Len(collate_audio) :
       /\ Len(collate_audio[a].audio) > 1
       /\ Len(collate_audio[b].audio) = 1
       /\ Size1(Clip(a)) < target_length
       /\ Size1(Clip(b)) > target_length

\* C5: sample j of a normalized clip is sample j of the loaded clip where it
\* has one and 0 after its end.
C5_ContentPosition ==
  pc = "ready" =>
    \A k \in 1..Len(data) :
      /\ Len(data[k][1]) = target_length
      /\ \A j \in 1..target_length :
           data[k][1][j] = IF j <= Size1(Clip(k)) THEN Clip(k)[1][j] ELSE 0

\* a padded clip, a cut clip and a clip left as it was, all in one dataset
C5_Witness ==
  /\ pc = "ready"
  /\ target_length > 0
  /\ \E a, b \in 1..Len(data) :
       /\ 0 < Size1(Clip(a))
       /\ Size1(Clip(a)) < target_length
       /\ Size1(Clip(b)) > target_length

IsMaxOf(m, S) == m \in S /\ \A x \in S : x <= m

Resolving == pc \in {"normalize", "ready"}

\* C6 as stated: with max_length_audio omitted, target_length is the largest
\* length among the loaded clips.
C6_TargetIsMaximum ==
  (Resolving /\ cfg.max_length_audio = <<>>) => IsMaxOf(target_length, ClipLengths)

\* C6: with max_length_audio omitted, self.max_len stays None until every file
\* is loaded, then is the largest loaded length when at least one file was
\* loaded and -1 when none was, and no clip is longer than it, so none is
\* cut; with max_length_audio given it is max_length_audio * sample_frequency
\* throughout.
C6_TargetLength ==
  IF cfg.max_length_audio = <<>>
    THEN /\ pc = "load" => self_max_len = <<>>
         /\ Resolving =>
              IF ClipLengths = {} THEN target_length = -1
              ELSE IsMaxOf(target_length, ClipLengths)
         /\ Resolving => \A k \in 1..Len(collate_audio) : Size1(Clip(k)) <= target_length
    ELSE pc \in {"load", "normalize", "ready"} =>
           self_max_len = <<cfg.max_length_audio[1] * cfg.sample_frequency>>

\* a dataset with no length asked for, built over a longer file followed by a
\* shorter one
C6_Witness ==
  /\ pc = "ready"
  /\ cfg.max_length_audio = <<>>
  /\ Len(data) = 2
  /\ Size1(Clip(1)) > Size1(Clip(2))
  /\ target_length = Size1(Clip(1))

Identity(n) == [k \in 1..n |-> k]

\* C8 as stated: whatever the shuffle flag, the wrapper and the loader
\* return_dataloader() gives are both constructed with shuffle off.
C8_NeverShuffled ==
  /\ \A self \in wrappers : self.super.shuffle = FALSE
  /\ loader # <<>> => loader[1].args.shuffle = FALSE

\* C8: whatever the shuffle flag, the wrapper itself is constructed with
\* shuffle off and a pass over it goes through the clips in order; the loader
\* return_dataloader() gives is constructed with the flag.
C8_ShuffleOnlyReturned ==
  /\ \A self \in wrappers : self.super.shuffle = FALSE /\ self.shuffle = self.arg_shuffle
  /\ loader # <<>> => loader[1].args.shuffle = loader[1].of
  /\ batches # <<>> =>
       /\ batches[1].via = "self" => batches[1].order = Identity(Len(data))
       /\ (batches[1].via = "return_dataloader" /\ ~batches[1].of)
            => batches[1].order = Identity(Len(data))

\* both wrappers over one dataset, and a pass over the loader the shuffling
\* one returned that is out of order
C8_Witness ==
  /\ Cardinality(wrappers) = 2
  /\ loader # <<>>
  /\ loader[1].of
  /\ batches # <<>>
  /\ batches[1].via = "return_dataloader"
  /\ batches[1].order # Identity(Len(data))

====
